---- MODULE Spec2Model ----
(***************************************************************************)
(* Herd projection and management system.                                  *)
(*                                                                         *)
(*   projection_model.py  project_herd_yearly, calculate_error             *)
(*   db_manager.py        add_new_cow, log_event                           *)
(*   app.py               new_birth_form, cull_form                        *)
(*                                                                         *)
(* The numeric code runs on IEEE-754 binary64 values (Python float, numpy  *)
(* float64).  A double is modelled exactly: a sign, an arbitrary-precision *)
(* natural significand and a binary exponent, every operation rounding its *)
(* exact result to 53 significant bits, ties to even.                      *)
(***************************************************************************)
EXTENDS Integers, Sequences, FiniteSets, TLC

(***************************************************************************)
(* Arbitrary-precision naturals: little-endian sequences of limbs in       *)
(* 0..Base-1 without leading (most significant) zero limbs; <<>> is zero.  *)
(***************************************************************************)
LimbBits == 15

Base == 2^LimbBits

RECURSIVE BNorm(_)
BNorm(a) ==
    IF a = <<>> THEN <<>>
    ELSE IF a[Len(a)] = 0 THEN BNorm(SubSeq(a, 1, Len(a) - 1))
    ELSE a

RECURSIVE BFromInt(_)
BFromInt(k) ==
    IF k = 0 THEN <<>> ELSE <<k % Base>> \o BFromInt(k \div Base)

RECURSIVE BToInt(_)
BToInt(a) ==
    IF a = <<>> THEN 0 ELSE a[1] + Base * BToInt(Tail(a))

Limb1(a) == IF a = <<>> THEN 0 ELSE a[1]

Rest(a) == IF a = <<>> THEN <<>> ELSE Tail(a)

RECURSIVE BAddC(_, _, _)
BAddC(a, b, c) ==
    IF a = <<>> /\ b = <<>> THEN (IF c = 0 THEN <<>> ELSE <<c>>)
    ELSE LET s == Limb1(a) + Limb1(b) + c
         IN  <<s % Base>> \o BAddC(Rest(a), Rest(b), s \div Base)

BAdd(a, b) == BAddC(a, b, 0)

\* a - b for a >= b
RECURSIVE BSubC(_, _, _)
BSubC(a, b, c) ==
    IF a = <<>> THEN <<>>
    ELSE LET d == a[1] - Limb1(b) - c
         IN  <<(d + Base) % Base>> \o BSubC(Tail(a), Rest(b), IF d < 0 THEN 1 ELSE 0)

BSub(a, b) == BNorm(BSubC(a, b, 0))

\* -1, 0, 1 as a < b, a = b, a > b
RECURSIVE BCmpTop(_, _, _)
BCmpTop(a, b, i) ==
    IF i = 0 THEN 0
    ELSE IF a[i] < b[i] THEN -1
    ELSE IF a[i] > b[i] THEN 1
    ELSE BCmpTop(a, b, i - 1)

BCmp(a, b) ==
    IF Len(a) < Len(b) THEN -1
    ELSE IF Len(a) > Len(b) THEN 1
    ELSE BCmpTop(a, b, Len(a))

\* a * k + c for 0 <= k < Base
RECURSIVE BMulSmallC(_, _, _)
BMulSmallC(a, k, c) ==
    IF a = <<>> THEN BFromInt(c)
    ELSE LET p == a[1] * k + c
         IN  <<p % Base>> \o BMulSmallC(Tail(a), k, p \div Base)

BMulSmall(a, k) == BNorm(BMulSmallC(a, k, 0))

BShiftLimbs(a, j) == IF a = <<>> THEN <<>> ELSE [i \in 1..j |-> 0] \o a

RECURSIVE BMul(_, _)
BMul(a, b) ==
    IF b = <<>> \/ a = <<>> THEN <<>>
    ELSE BAdd(BMulSmall(a, b[1]), BShiftLimbs(BMul(a, Tail(b)), 1))

\* a * 2^n
BShl(a, n) == BShiftLimbs(BMulSmall(a, 2^(n % LimbBits)), n \div LimbBits)

\* quotient and remainder of a by k, 0 < k <= Base
RECURSIVE BDivSmallR(_, _)
BDivSmallR(a, k) ==
    IF a = <<>> THEN [q |-> <<>>, r |-> 0]
    ELSE LET hi  == BDivSmallR(Tail(a), k)
             cur == hi.r * Base + a[1]
         IN  [q |-> <<cur \div k>> \o hi.q, r |-> cur % k]

BDivSmall(a, k) ==
    LET d == BDivSmallR(a, k) IN [q |-> BNorm(d.q), r |-> d.r]

\* floor(a / 2^n)
BShr(a, n) ==
    LET j == n \div LimbBits
    IN  IF j >= Len(a) THEN <<>>
        ELSE BDivSmall(SubSeq(a, j + 1, Len(a)), 2^(n % LimbBits)).q

RECURSIVE BitLenSmall(_)
BitLenSmall(k) == IF k = 0 THEN 0 ELSE 1 + BitLenSmall(k \div 2)

BBitLen(a) ==
    IF a = <<>> THEN 0 ELSE LimbBits * (Len(a) - 1) + BitLenSmall(a[Len(a)])

BIsOdd(a) == a # <<>> /\ a[1] % 2 = 1

\* a / 2^n rounded to the nearest natural, ties to even; sticky says that the
\* exact value lies strictly above a (and below a + 1)
BShrRound(a, n, sticky) ==
    IF n = 0 THEN a
    ELSE LET q    == BShr(a, n)
             r    == BSub(a, BShl(q, n))
             c    == BCmp(r, BShl(<<1>>, n - 1))
             up   == c > 0 \/ (c = 0 /\ (sticky \/ BIsOdd(q)))
         IN  IF up THEN BAdd(q, <<1>>) ELSE q

(***************************************************************************)
(* IEEE-754 binary64.  A finite double is (-1)^neg * man * 2^exp, kept     *)
(* canonical (man odd, or man zero and exp zero) so that equal doubles are *)
(* equal records.  At herd scale no result overflows or is subnormal.      *)
(***************************************************************************)
Precision == 53

NaN == [nan |-> TRUE, neg |-> FALSE, man |-> <<>>, exp |-> 0]

RECURSIVE Canon(_, _, _)
Canon(neg, man, exp) ==
    IF man = <<>> THEN [nan |-> FALSE, neg |-> neg, man |-> <<>>, exp |-> 0]
    ELSE IF man[1] = 0 THEN Canon(neg, Tail(man), exp + LimbBits)
    ELSE IF man[1] % 2 = 0 THEN Canon(neg, BShr(man, 1), exp + 1)
    ELSE [nan |-> FALSE, neg |-> neg, man |-> man, exp |-> exp]

\* the double nearest to (man [+ a positive fraction if sticky]) * 2^exp;
\* a sticky man has more than Precision + 1 bits
FRound(neg, man, exp, sticky) ==
    LET k == BBitLen(man) - Precision
    IN  IF k <= 0 THEN Canon(neg, man, exp)
        ELSE Canon(neg, BShrRound(man, k, sticky), exp + k)

Abs(i) == IF i < 0 THEN -i ELSE i

FFromInt(i) == Canon(i < 0, BFromInt(Abs(i)), 0)

\* the double a decimal literal p/q (q > 0) denotes
FFromRational(p, q) ==
    LET s == 60 + BitLenSmall(q)
        d == BDivSmall(BShl(BFromInt(Abs(p)), s), q)
    IN  FRound(p < 0, d.q, -s, d.r # 0)

FNeg(x) == IF x.nan THEN NaN ELSE [x EXCEPT !.neg = ~x.neg]

FMul(x, y) ==
    IF x.nan \/ y.nan THEN NaN
    ELSE FRound(x.neg # y.neg, BMul(x.man, y.man), x.exp + y.exp, FALSE)

FAdd(x, y) ==
    IF x.nan \/ y.nan THEN NaN
    ELSE LET e  == IF x.exp < y.exp THEN x.exp ELSE y.exp
             mx == BShl(x.man, x.exp - e)
             my == BShl(y.man, y.exp - e)
             c  == BCmp(mx, my)
         IN  IF x.neg = y.neg THEN FRound(x.neg, BAdd(mx, my), e, FALSE)
             ELSE IF c = 0 THEN Canon(FALSE, <<>>, 0)
             ELSE IF c > 0 THEN FRound(x.neg, BSub(mx, my), e, FALSE)
             ELSE FRound(y.neg, BSub(my, mx), e, FALSE)

FSub(x, y) == FAdd(x, FNeg(y))

\* x / k for a double x and an integer k # 0
FDivInt(x, k) ==
    IF x.nan THEN NaN
    ELSE LET s == 60 + BitLenSmall(Abs(k))
             d == BDivSmall(BShl(x.man, s), Abs(k))
         IN  FRound(x.neg # (k < 0), d.q, x.exp - s, d.r # 0)

FIsZero(x) == ~x.nan /\ x.man = <<>>

FLtZero(x) == ~x.nan /\ x.neg /\ x.man # <<>>

\* int(np.round(x)): the nearest integer, ties to even
RoundToInt(x) ==
    LET mag == IF x.exp >= 0 THEN BShl(x.man, x.exp)
               ELSE BShrRound(x.man, -x.exp, FALSE)
    IN  IF x.neg THEN -BToInt(mag) ELSE BToInt(mag)

(***************************************************************************)
(* State.  One group of variables per entry point.                         *)
(*   project_herd_yearly : the call's arguments (C and m as the decimal    *)
(*       literals <<p, q>> = p/q the caller wrote), the lists B and Y, the *)
(*       loop index n, the DataFrame df and the position pc.               *)
(*   calculate_error     : the two argument lists, the returned pair       *)
(*       (mae, mape) and the position epc.                                 *)
(*   db_manager          : the cows table, the events table and the value  *)
(*       the last call of add_new_cow or log_event returned.               *)
(*   tab_comparison      : the stored projection projected_df, the file    *)
(*       uploaded_file, the aligned table actual_df and the position cpc;  *)
(*       its call of calculate_error shows in that entry point's variables.*)
(***************************************************************************)
VARIABLES B0, Y0, C, m, years, B, Y, n, df, pc,
          projected_counts, actual_counts, mae, mape, epc,
          cows, events, ret,
          projected_df, uploaded_file, actual_df, cpc

projVars == <<B0, Y0, C, m, years, B, Y, n, df, pc>>

errVars == <<projected_counts, actual_counts, mae, mape, epc>>

dbVars == <<cows, events, ret>>

cmpVars == <<projected_df, uploaded_file, actual_df, cpc>>

vars == <<projVars, errVars, dbVars, cmpVars>>

(***************************************************************************)
(* Bounds of the model and the argument values drawn.                      *)
(***************************************************************************)
MaxB0 == 2

MaxY0 == 2

MaxYears == 3

B0Values == (-1 .. MaxB0) \cup {9, 20}

Y0Values == (-1 .. MaxY0) \cup {10}

YearsValues == -1 .. MaxYears

\* 0.1, 0.5, 1.0
CValues == {<<1, 10>>, <<1, 2>>, <<1, 1>>}

\* 0.0, 0.05, 0.5 and the out-of-domain 1.0, 3.0
mValues == {<<0, 1>>, <<1, 20>>, <<1, 2>>, <<1, 1>>, <<3, 1>>}

(***************************************************************************)
(* project_herd_yearly                                                     *)
(***************************************************************************)
\* a float argument as the function receives it
FloatOf(lit) == FFromRational(lit[1], lit[2])

Last(s) == s[Len(s)]

\* (m - 1) in place of (1 - m)
Survival_Swapped(mf) == FSub(mf, FFromInt(1))

\* (1 - m)
Survival(mf) == FSub(FFromInt(1), mf)

\* birth_n = C * B[-1]
birth_n(Cf, Blast) == FMul(Cf, FFromInt(Blast))

\* (1 + m) in place of (1 - m)
next_B_raw_Growth(Blast, Ylast, mf) ==
    FAdd(FMul(FFromInt(Blast), FAdd(FFromInt(1), mf)),
         FMul(FFromInt(Ylast), FAdd(FFromInt(1), mf)))

\* next_B_raw = (B[-1] * (1 - m)) + (Y[-1] * (1 - m))
next_B_raw(Blast, Ylast, mf) ==
    FAdd(FMul(FFromInt(Blast), Survival(mf)), FMul(FFromInt(Ylast), Survival(mf)))

\* next_Y_raw = birth_n * (1 - m)
next_Y_raw(Cf, Blast, mf) == FMul(birth_n(Cf, Blast), Survival(mf))

\* next_B = int(np.round(next_B_raw))
next_B(Blast, Ylast, mf) == RoundToInt(next_B_raw(Blast, Ylast, mf))

\* next_Y = int(np.round(next_Y_raw))
next_Y(Cf, Blast, mf) == RoundToInt(next_Y_raw(Cf, Blast, mf))

\* len(range(k))
RangeLen(k) == IF k > 0 THEN k ELSE 0

\* range(years) in place of range(years + 1)
YearColumn_Short(yrs) == [i \in 1 .. RangeLen(yrs) |-> i - 1]

\* 'Year': range(years + 1)
YearColumn(yrs) == [i \in 1 .. RangeLen(yrs + 1) |-> i - 1]

\* np.array(B) + np.array(Y)
TotalColumn(Bs, Ys) == [i \in 1 .. Len(Bs) |-> Bs[i] + Ys[i]]

NoFrame == [Year |-> <<>>, Breeders |-> <<>>, Juveniles |-> <<>>, Total |-> <<>>]

\* one iteration of: for n in range(1, years + 1)
LoopBody ==
    /\ pc = "loop"
    /\ n <= years
    /\ B' = Append(B, next_B(Last(B), Last(Y), FloatOf(m)))
    /\ Y' = Append(Y, next_Y(FloatOf(C), Last(B), FloatOf(m)))
    /\ n' = n + 1
    /\ UNCHANGED <<B0, Y0, C, m, years, df, pc>>
    /\ UNCHANGED <<errVars, dbVars, cmpVars>>

\* df = pd.DataFrame({...}); return df.  pandas raises ValueError when the
\* columns differ in length.
BuildFrame ==
    /\ pc = "loop"
    /\ n > years
    /\ IF Len(YearColumn(years)) = Len(B)
       THEN /\ df' = [Year      |-> YearColumn(years),
                      Breeders  |-> B,
                      Juveniles |-> Y,
                      Total     |-> TotalColumn(B, Y)]
            /\ pc' = "returned"
       ELSE /\ df' = NoFrame
            /\ pc' = "ValueError"
    /\ UNCHANGED <<B0, Y0, C, m, years, B, Y, n>>
    /\ UNCHANGED <<errVars, dbVars, cmpVars>>

(***************************************************************************)
(* calculate_error                                                         *)
(***************************************************************************)
MaxLen == 3

CountValues == {-2, 0, 3, 5}

CountLists == UNION {[1 .. k -> CountValues] : k \in 0 .. MaxLen}

Zero == FFromInt(0)

\* numpy broadcasts two one-dimensional arrays when their lengths agree or
\* one of them has length 1, and raises ValueError otherwise
CanBroadcast(p, a) == Len(p) = Len(a) \/ Len(p) = 1 \/ Len(a) = 1

BroadcastLen(p, a) == IF Len(p) = 1 THEN Len(a) ELSE Len(p)

At(x, i) == IF Len(x) = 1 THEN x[1] ELSE x[i]

\* np.abs(projected - actual)
AbsDiff(p, a) == [i \in 1 .. BroadcastLen(p, a) |-> Abs(At(p, i) - At(a, i))]

RECURSIVE SumInt(_)
SumInt(xs) == IF xs = <<>> THEN 0 ELSE xs[1] + SumInt(Tail(xs))

\* np.mean of an integer array: the float64 sum divided by the count; the
\* mean of an empty array is nan
MeanInt(xs) ==
    IF Len(xs) = 0 THEN NaN ELSE FDivInt(FFromInt(SumInt(xs)), Len(xs))

RECURSIVE SumFloat(_, _)
SumFloat(xs, acc) ==
    IF xs = <<>> THEN acc ELSE SumFloat(Tail(xs), FAdd(acc, xs[1]))

\* np.mean of a float64 array
MeanFloat(xs) ==
    IF Len(xs) = 0 THEN NaN ELSE FDivInt(SumFloat(xs, Zero), Len(xs))

\* valid_mask = actual != 0
valid_mask(a) == [i \in 1 .. Len(a) |-> a[i] # 0]

\* np.any(valid_mask)
AnyValid(a) == \E i \in 1 .. Len(a) : valid_mask(a)[i]

\* x[valid_mask] for a mask as long as x
Masked(x, mask) ==
    LET sel == SelectSeq([i \in 1 .. Len(x) |-> <<x[i], mask[i]>>], LAMBDA e : e[2])
    IN  [i \in 1 .. Len(sel) |-> sel[i][1]]

\* np.abs(projected[valid_mask] - actual[valid_mask]) / actual[valid_mask]
percentage_errors(p, a) ==
    LET pv == Masked(p, valid_mask(a))
        av == Masked(a, valid_mask(a))
    IN  [i \in 1 .. Len(av) |-> FDivInt(FFromInt(Abs(pv[i] - av[i])), av[i])]

\* the whole function: how it ends and what it returns
calculate_error(p, a) ==
    IF ~CanBroadcast(p, a)
    THEN [outcome |-> "ValueError", mae |-> Zero, mape |-> Zero]
    ELSE LET mae_ == MeanInt(AbsDiff(p, a))
         IN  IF ~AnyValid(a)
             THEN [outcome |-> "returned", mae |-> mae_, mape |-> Zero]
             ELSE IF Len(valid_mask(a)) # Len(p)
             THEN [outcome |-> "IndexError", mae |-> Zero, mape |-> Zero]
             ELSE [outcome |-> "returned", mae |-> mae_,
                   mape |-> FMul(MeanFloat(percentage_errors(p, a)), FFromInt(100))]

CalculateError ==
    /\ epc = "call"
    /\ LET r == calculate_error(projected_counts, actual_counts)
       IN  /\ mae' = r.mae
           /\ mape' = r.mape
           /\ epc' = r.outcome
    /\ UNCHANGED <<projected_counts, actual_counts>>
    /\ UNCHANGED <<projVars, dbVars, cmpVars>>

(***************************************************************************)
(* db_manager: the cows and events tables, and the two forms of app.py     *)
(* that write them.  cows maps each stored cow_id (the primary key) to its *)
(* row; SQLite does not enforce the events.cow_id foreign key.             *)
(***************************************************************************)
MaxEvents == 3

CowIds == {"c1", "c2"}

Sexes == {"Female", "Male"}

EventTypes == {"Birth", "Death", "Sale", "Vet"}

\* INSERT OR REPLACE in place of INSERT: a stored cow_id is overwritten
InsertCow_Replace(cs, cow_id, sex) ==
    [c \in DOMAIN cs \cup {cow_id} |->
        IF c = cow_id THEN [sex |-> sex, status |-> "Active"] ELSE cs[c]]

\* INSERT INTO cows ... 'Active'; IntegrityError on a stored cow_id
InsertCow(cs, cow_id, sex) ==
    IF cow_id \in DOMAIN cs THEN cs
    ELSE cs @@ (cow_id :> [sex |-> sex, status |-> "Active"])

\* UPDATE cows SET status = ? WHERE cow_id = ?   with (event_type, cow_id)
UpdateStatus(cs, cow_id, event_type) ==
    [c \in DOMAIN cs |-> IF c = cow_id THEN [cs[c] EXCEPT !.status = event_type]
                                       ELSE cs[c]]

\* the cows table after log_event(cow_id, event_type)
LogEventCows(cs, cow_id, event_type) ==
    IF event_type \in {"Death", "Sale"} THEN UpdateStatus(cs, cow_id, event_type)
    ELSE cs

\* the events table after log_event(cow_id, event_type)
LogEventEvents(ev, cow_id, event_type) ==
    Append(ev, [cow_id |-> cow_id, event_type |-> event_type])

add_new_cow(cow_id, sex) ==
    /\ cows' = InsertCow(cows, cow_id, sex)
    /\ ret' = IF cow_id \in DOMAIN cows THEN "False" ELSE "True"
    /\ UNCHANGED events
    /\ UNCHANGED <<projVars, errVars, cmpVars>>

log_event(cow_id, event_type) ==
    /\ Len(events) < MaxEvents
    /\ events' = LogEventEvents(events, cow_id, event_type)
    /\ cows' = LogEventCows(cows, cow_id, event_type)
    /\ ret' = "None"
    /\ UNCHANGED <<projVars, errVars, cmpVars>>

\* app.py "Log Birth and Add Cow"; an empty calf_id is refused; log_event,
\* which returns nothing, is called when add_new_cow returned True
new_birth_form(calf_id, calf_sex) ==
    /\ calf_id # ""
    /\ cows' = InsertCow(cows, calf_id, calf_sex)
    /\ ret' = IF calf_id \in DOMAIN cows THEN "False" ELSE "None"
    /\ IF calf_id \in DOMAIN cows
       THEN UNCHANGED events
       ELSE /\ Len(events) < MaxEvents
            /\ events' = LogEventEvents(events, calf_id, "Birth")
    /\ UNCHANGED <<projVars, errVars, cmpVars>>

\* app.py "Log Death / Sale": the cow is picked among the rows with status Active
cull_form(cow_id_cull, exit_type) ==
    /\ cow_id_cull \in {c \in DOMAIN cows : cows[c].status = "Active"}
    /\ Len(events) < MaxEvents
    /\ events' = LogEventEvents(events, cow_id_cull, exit_type)
    /\ cows' = LogEventCows(cows, cow_id_cull, exit_type)
    /\ ret' = "None"
    /\ UNCHANGED <<projVars, errVars, cmpVars>>

(***************************************************************************)
(* The comparison report of app.py (tab_comparison) and                    *)
(* get_actual_herd_counts of db_manager.py.  A table is a record of its    *)
(* columns; a cell of the actual data is a number or absent (np.nan).      *)
(***************************************************************************)
MaxHorizon == 2

MaxRows == 2

Absent == [present |-> FALSE, value |-> 0]

Num(v) == [present |-> TRUE, value |-> v]

RECURSIVE ProjectLists(_, _, _, _, _)
ProjectLists(Bs, Ys, Cf, mf, k) ==
    IF k <= 0 THEN <<Bs, Ys>>
    ELSE ProjectLists(Append(Bs, next_B(Last(Bs), Last(Ys), mf)),
                      Append(Ys, next_Y(Cf, Last(Bs), mf)), Cf, mf, k - 1)

\* the DataFrame project_herd_yearly returns for years >= 0
project_herd_yearly(b0, y0, c, mr, yrs) ==
    LET l == ProjectLists(<<b0>>, <<y0>>, FloatOf(c), FloatOf(mr), yrs)
    IN  [Year      |-> YearColumn(yrs),
         Breeders  |-> l[1],
         Juveniles |-> l[2],
         Total     |-> TotalColumn(l[1], l[2])]

\* the projections "Run Projection and Save" can have stored: B0 >= 1,
\* Y0 >= 0, years >= 1, here with the form's default C = 0.5 and m = 0.05
StoredProjections ==
    {project_herd_yearly(b0, y0, <<1, 2>>, <<1, 20>>, yrs) :
        b0 \in {1, 20}, y0 \in {0, 10}, yrs \in 1 .. MaxHorizon}

\* no file, or a CSV file read as its header and its rows <<Year, value>>
NoUpload == [present |-> FALSE, columns |-> <<>>, rows |-> <<>>]

CsvRows ==
    UNION {[1 .. k -> (0 .. MaxHorizon + 1) \X {0, 30}] : k \in 0 .. MaxRows}

Uploads ==
    {NoUpload} \cup
    {[present |-> TRUE, columns |-> cols, rows |-> rows] :
        cols \in {<<"Year", "Actual_Total">>, <<"Year", "Total">>}, rows \in CsvRows}

NoActual == [columns |-> <<>>, Year |-> <<>>, Actual_Total |-> <<>>]

Range(s) == {s[i] : i \in 1 .. Len(s)}

\* pd.DataFrame({'Year': range(years_horizon + 1), 'Actual_Total': [np.nan] * ...})
NanFrame(years_horizon) ==
    [columns      |-> <<"Year", "Actual_Total">>,
     Year         |-> YearColumn(years_horizon),
     Actual_Total |-> [i \in 1 .. RangeLen(years_horizon + 1) |-> Absent]]

\* actual_data_df.set_index('Year').reindex(full_index).reset_index();
\* reindex raises ValueError on an index with duplicate labels
HasDuplicateYears(rows) ==
    \E i, j \in 1 .. Len(rows) : i # j /\ rows[i][1] = rows[j][1]

Reindexed(rows, years_horizon) ==
    [columns      |-> <<"Year", "Actual_Total">>,
     Year         |-> YearColumn(years_horizon),
     Actual_Total |-> [i \in 1 .. RangeLen(years_horizon + 1) |->
                          IF \E r \in 1 .. Len(rows) : rows[r][1] = i - 1
                          THEN Num(rows[CHOOSE r \in 1 .. Len(rows) : rows[r][1] = i - 1][2])
                          ELSE Absent]]

get_actual_herd_counts(years_horizon, csv_data) ==
    IF ~csv_data.present THEN NanFrame(years_horizon)
    ELSE IF "Year" \notin Range(csv_data.columns)
            \/ "Actual_Total" \notin Range(csv_data.columns)
    THEN NanFrame(years_horizon)
    ELSE IF HasDuplicateYears(csv_data.rows) THEN NanFrame(years_horizon)
    ELSE Reindexed(csv_data.rows, years_horizon)

\* projected_df['Year'].max()
RECURSIVE MaxOf(_)
MaxOf(s) ==
    IF Len(s) = 1 THEN s[1]
    ELSE LET r == MaxOf(Tail(s)) IN IF s[1] > r THEN s[1] ELSE r

\* actual_df['Actual_Total'].isnull().all()
AllNull(frame) ==
    \A i \in 1 .. Len(frame.Actual_Total) : ~frame.Actual_Total[i].present

\* pd.merge(projected_df[['Year', 'Total Females (Projected)']],
\*          actual_df[['Year', 'Actual Herd Size (Uploaded)']], on='Year', how='left')
\* for an actual_df that has the column: one row per projected year
Merged(proj, frame) ==
    [i \in 1 .. Len(proj.Year) |->
        [Year      |-> proj.Year[i],
         Projected |-> proj.Total[i],
         Actual    |-> IF \E k \in 1 .. Len(frame.Year) : frame.Year[k] = proj.Year[i]
                       THEN frame.Actual_Total[CHOOSE k \in 1 .. Len(frame.Year) :
                                                   frame.Year[k] = proj.Year[i]]
                       ELSE Absent]]

\* comparison_df.dropna()
DropNa(rows) == SelectSeq(rows, LAMBDA r : r.Actual.present)

\* a stored projection is selected and a file uploaded or not
CmpInit ==
    /\ projected_df \in StoredProjections
    /\ uploaded_file \in Uploads
    /\ actual_df = NoActual
    /\ cpc = "run"
    /\ B0 = 0 /\ Y0 = 0 /\ C = <<1, 1>> /\ m = <<0, 1>> /\ years = 0
    /\ B = <<>> /\ Y = <<>> /\ n = 0 /\ df = NoFrame /\ pc = "idle"
    /\ projected_counts = <<>> /\ actual_counts = <<>>
    /\ mae = Zero /\ mape = Zero /\ epc = "idle"
    /\ cows = <<>> /\ events = <<>> /\ ret = "None"

\* one run of the "Comparison Report" tab, app.py lines 197-235: st.stop()
\* when no actual value is present; selecting the column 'Actual Herd Size
\* (Uploaded)' of actual_df raises KeyError when actual_df has no such column
tab_comparison ==
    /\ cpc = "run"
    /\ LET years_horizon == MaxOf(projected_df.Year)
           frame   == get_actual_herd_counts(years_horizon, uploaded_file)
           calc_df == DropNa(Merged(projected_df, frame))
           pcs     == [i \in 1 .. Len(calc_df) |-> calc_df[i].Projected]
           acs     == [i \in 1 .. Len(calc_df) |-> calc_df[i].Actual.value]
           r       == calculate_error(pcs, acs)
       IN  /\ actual_df' = frame
           /\ IF AllNull(frame)
              THEN /\ cpc' = IF uploaded_file.present THEN "stopped: error"
                                                     ELSE "stopped: info"
                   /\ UNCHANGED errVars
              ELSE IF "Actual Herd Size (Uploaded)" \notin Range(frame.columns)
              THEN /\ cpc' = "KeyError"
                   /\ UNCHANGED errVars
              ELSE IF calc_df = <<>>
              THEN /\ cpc' = "displayed"
                   /\ UNCHANGED errVars
              ELSE /\ cpc' = "displayed"
                   /\ projected_counts' = pcs
                   /\ actual_counts' = acs
                   /\ mae' = r.mae
                   /\ mape' = r.mape
                   /\ epc' = r.outcome
    /\ UNCHANGED <<projected_df, uploaded_file>>
    /\ UNCHANGED <<projVars, dbVars>>

(***************************************************************************)
(* Specifications, one per entry point; the variables of the other entry   *)
(* points rest at their idle values.                                       *)
(***************************************************************************)
\* B = [B0]; Y = [Y0]; the loop is about to test n = 1
ProjInit ==
    /\ B0 \in B0Values
    /\ Y0 \in Y0Values
    /\ C \in CValues
    /\ m \in mValues
    /\ years \in YearsValues
    /\ B = <<B0>>
    /\ Y = <<Y0>>
    /\ n = 1
    /\ df = NoFrame
    /\ pc = "loop"
    /\ projected_counts = <<>> /\ actual_counts = <<>>
    /\ mae = Zero /\ mape = Zero /\ epc = "idle"
    /\ cows = <<>> /\ events = <<>> /\ ret = "None"
    /\ projected_df = NoFrame /\ uploaded_file = NoUpload
    /\ actual_df = NoActual /\ cpc = "idle"

ProjNext == LoopBody \/ BuildFrame

SpecProj == ProjInit /\ [][ProjNext]_vars

\* the call calculate_error(projected_counts, actual_counts) is about to run
ErrInit ==
    /\ projected_counts \in CountLists
    /\ actual_counts \in CountLists
    /\ mae = Zero
    /\ mape = Zero
    /\ epc = "call"
    /\ B0 = 0 /\ Y0 = 0 /\ C = <<1, 1>> /\ m = <<0, 1>> /\ years = 0
    /\ B = <<>> /\ Y = <<>> /\ n = 0 /\ df = NoFrame /\ pc = "idle"
    /\ cows = <<>> /\ events = <<>> /\ ret = "None"
    /\ projected_df = NoFrame /\ uploaded_file = NoUpload
    /\ actual_df = NoActual /\ cpc = "idle"

ErrNext == CalculateError

SpecErr == ErrInit /\ [][ErrNext]_vars

\* initialize_db on a new database file
DBInit ==
    /\ cows = <<>>
    /\ events = <<>>
    /\ ret = "None"
    /\ B0 = 0 /\ Y0 = 0 /\ C = <<1, 1>> /\ m = <<0, 1>> /\ years = 0
    /\ B = <<>> /\ Y = <<>> /\ n = 0 /\ df = NoFrame /\ pc = "idle"
    /\ projected_counts = <<>> /\ actual_counts = <<>>
    /\ mae = Zero /\ mape = Zero /\ epc = "idle"
    /\ projected_df = NoFrame /\ uploaded_file = NoUpload
    /\ actual_df = NoActual /\ cpc = "idle"

DBNext ==
    \/ \E cow_id \in CowIds, sex \in Sexes : add_new_cow(cow_id, sex)
    \/ \E cow_id \in CowIds, event_type \in EventTypes : log_event(cow_id, event_type)
    \/ \E calf_id \in CowIds \cup {""}, calf_sex \in Sexes : new_birth_form(calf_id, calf_sex)
    \/ \E cow_id_cull \in CowIds, exit_type \in {"Death", "Sale"} : cull_form(cow_id_cull, exit_type)

SpecDB == DBInit /\ [][DBNext]_vars

(***************************************************************************)
(* Properties of project_herd_yearly (under SpecProj).                     *)
(***************************************************************************)
\* the documented input domain: B0 >= 0, Y0 >= 0, C in (0,1], m in [0,1), years >= 0
ValidDomain ==
    /\ B0 >= 0 /\ Y0 >= 0 /\ years >= 0
    /\ 0 < C[1] /\ C[1] <= C[2]
    /\ 0 <= m[1] /\ m[1] < m[2]

Finished == pc \in {"returned", "ValueError"}

\* r is num/den (den > 0) rounded to the nearest integer, ties to the even one
IsRoundHalfEven(r, num, den) ==
    /\ Abs(2 * (r * den - num)) <= den
    /\ Abs(2 * (r * den - num)) = den => r % 2 = 0

\* C1: for valid inputs and every year i >= 1 of the series,
\* Breeders[i] = round(Breeders[i-1]*(1-m) + Juveniles[i-1]*(1-m)) and
\* Juveniles[i] = round(C*Breeders[i-1]*(1-m)), the right-hand sides being the
\* exact values for the C and m the caller wrote, round to nearest, ties to even.
C1_Recurrence ==
    ValidDomain =>
        \A i \in 2 .. Len(B) :
            /\ IsRoundHalfEven(B[i], (B[i-1] + Y[i-1]) * (m[2] - m[1]), m[2])
            /\ IsRoundHalfEven(Y[i], C[1] * B[i-1] * (m[2] - m[1]), C[2] * m[2])

\* C2: for every years >= 0 the call returns a series of exactly years + 1
\* entries, Year running 0..years in order, entry 0 holding B0, Y0 and B0 + Y0.
C2_Horizon ==
    (years >= 0 /\ Finished) =>
        /\ pc = "returned"
        /\ df.Year = [i \in 1 .. years + 1 |-> i - 1]
        /\ Len(df.Breeders) = years + 1
        /\ Len(df.Juveniles) = years + 1
        /\ Len(df.Total) = years + 1
        /\ df.Breeders[1] = B0
        /\ df.Juveniles[1] = Y0
        /\ df.Total[1] = B0 + Y0

C2_Witness ==
    /\ pc = "returned" /\ years = 2 /\ df.Year = <<0, 1, 2>>
    /\ df.Breeders[1] = 20 /\ df.Juveniles[1] = 10 /\ df.Total[1] = 30

\* C3: for valid inputs every breeder, juvenile and total value of every year
\* is a non-negative integer and each total is breeders + juveniles of its year.
C3_NonNegative ==
    ValidDomain =>
        /\ \A i \in 1 .. Len(B) : B[i] \in Nat /\ Y[i] \in Nat
        /\ pc = "returned" =>
             \A i \in 1 .. Len(df.Year) :
                /\ df.Breeders[i] \in Nat
                /\ df.Juveniles[i] \in Nat
                /\ df.Total[i] \in Nat
                /\ df.Total[i] = df.Breeders[i] + df.Juveniles[i]

\* a valid run of two or more years in which a herd with breeders dies out
C3_Witness ==
    /\ ValidDomain /\ pc = "returned" /\ years >= 2
    /\ B0 > 0 /\ df.Total[Len(df.Total)] = 0

\* C7: a call with a negative B0, a negative Y0, a negative years or m >= 1
\* fails (whatever the error is called) and returns no series.
C7_InvalidRejected ==
    (Finished /\ (B0 < 0 \/ Y0 < 0 \/ years < 0 \/ m[1] >= m[2])) => pc # "returned"

\* C9 as stated, on valid inputs: once the juvenile count of a year i >= 1 is
\* 0, the juvenile count of every later year of the series is 0.
C9_CollapseStays ==
    (ValidDomain /\ pc = "returned") =>
        \A i \in 2 .. Len(df.Juveniles) :
            df.Juveniles[i] = 0 =>
                \A j \in i .. Len(df.Juveniles) : df.Juveniles[j] = 0

\* C9 amended: on valid inputs, once the juvenile count is 0 in two consecutive
\* years i-1 and i (i >= 1), it is 0 in every later year of the series.
C9_CollapseStaysAfterTwo ==
    (ValidDomain /\ pc = "returned") =>
        \A i \in 2 .. Len(df.Juveniles) :
            (df.Juveniles[i-1] = 0 /\ df.Juveniles[i] = 0) =>
                \A j \in i .. Len(df.Juveniles) : df.Juveniles[j] = 0

\* juveniles present at year 0, none born in years 1 and 2, none in year 3
C9_Witness ==
    /\ ValidDomain /\ pc = "returned" /\ years = 3
    /\ df.Juveniles[1] > 0 /\ df.Breeders[2] > 0
    /\ df.Juveniles[2] = 0 /\ df.Juveniles[3] = 0 /\ df.Juveniles[4] = 0

(***************************************************************************)
(* Properties of calculate_error (under SpecErr).                          *)
(***************************************************************************)
ErrFinished == epc \in {"returned", "ValueError", "IndexError"}

SameLength == Len(projected_counts) = Len(actual_counts)

\* C4: a call with sequences of different lengths fails (whatever the error is
\* called) and returns no (mae, mape).
C4_MismatchRejected ==
    (ErrFinished /\ ~SameLength) => epc # "returned"

\* the mean of |p[i] - a[i]| / |a[i]| over the i with a[i] # 0, times 100,
\* evaluated in float64 as the code evaluates its own expression
ClaimedMape(p, a) ==
    LET sel == SelectSeq([i \in 1 .. Len(a) |-> <<p[i], a[i]>>], LAMBDA e : e[2] # 0)
        pe  == [i \in 1 .. Len(sel) |->
                   FDivInt(FFromInt(Abs(sel[i][1] - sel[i][2])), Abs(sel[i][2]))]
    IN  IF Len(sel) = 0 THEN Zero ELSE FMul(MeanFloat(pe), FFromInt(100))

\* C5: for equal-length non-empty inputs the call returns MAE = the mean of
\* |p[i] - a[i]| (the double nearest to it) and MAPE = 100 times the mean of
\* |p[i] - a[i]| / |a[i]| over the i with a[i] # 0, and 0.0 when there is none.
C5_ErrorValues ==
    (ErrFinished /\ SameLength /\ Len(actual_counts) > 0) =>
        /\ epc = "returned"
        /\ mae = FFromRational(SumInt(AbsDiff(projected_counts, actual_counts)),
                               Len(actual_counts))
        /\ mape = ClaimedMape(projected_counts, actual_counts)

\* C6: for equal-length non-empty inputs, negative actual values included,
\* the returned MAE and MAPE are both non-negative.
C6_ErrorsNonNegative ==
    (epc = "returned" /\ SameLength /\ Len(actual_counts) > 0) =>
        /\ ~mae.nan /\ ~FLtZero(mae)
        /\ ~mape.nan /\ ~FLtZero(mape)

\* C8: a call with two empty sequences fails or returns MAE = 0.0 and
\* MAPE = 0.0; neither returned value is not-a-number.
C8_EmptySample ==
    (ErrFinished /\ projected_counts = <<>> /\ actual_counts = <<>>) =>
        \/ epc # "returned"
        \/ (FIsZero(mae) /\ FIsZero(mape))

(***************************************************************************)
(* Properties of the cows table (under SpecDB).                            *)
(***************************************************************************)
\* C10: every stored animal's status is one of Active, Sold, Dead.
C10_StatusDomain ==
    \A c \in DOMAIN cows : cows[c].status \in {"Active", "Sold", "Dead"}

(***************************************************************************)
(* Properties of the comparison report (under SpecCmp).                    *)
(***************************************************************************)
CmpNext == tab_comparison

SpecCmp == CmpInit /\ [][CmpNext]_vars

CmpFinished == cpc \in {"stopped: error", "stopped: info", "KeyError", "displayed"}

\* an upload with the two named columns and one row per observed year
WellFormedUpload ==
    /\ uploaded_file.present
    /\ uploaded_file.columns = <<"Year", "Actual_Total">>
    /\ \A i, j \in 1 .. Len(uploaded_file.rows) :
          uploaded_file.rows[i][1] = uploaded_file.rows[j][1] => i = j

Horizon == Len(projected_df.Year) - 1

UploadedYears == {uploaded_file.rows[i][1] : i \in 1 .. Len(uploaded_file.rows)}

UploadedTotal(y) ==
    uploaded_file.rows[CHOOSE i \in 1 .. Len(uploaded_file.rows) :
                           uploaded_file.rows[i][1] = y][2]

\* the years of 0..Horizon with an uploaded value, in increasing order
RECURSIVE YearsFrom(_)
YearsFrom(y) ==
    IF y > Horizon THEN <<>>
    ELSE (IF y \in UploadedYears THEN <<y>> ELSE <<>>) \o YearsFrom(y + 1)

\* the rows get_actual_herd_counts must return for a well-formed upload: one
\* for each year 0..Horizon, the uploaded total where the year was uploaded,
\* absent otherwise, uploaded years outside 0..Horizon dropped
AlignedRows ==
    /\ actual_df.Year = [i \in 1 .. Horizon + 1 |-> i - 1]
    /\ Len(actual_df.Actual_Total) = Horizon + 1
    /\ \A i \in 1 .. Horizon + 1 :
          actual_df.Actual_Total[i] =
              IF i - 1 \in UploadedYears THEN Num(UploadedTotal(i - 1)) ELSE Absent

\* C11: for a stored projection of horizon N and a well-formed upload,
\* get_actual_herd_counts returns one row for each year 0..N (the uploaded
\* total where the year was uploaded, absent otherwise, other years dropped),
\* and the comparison passes calculate_error exactly the years of 0..N with an
\* uploaded value, each projected total paired with that year's uploaded
\* total; calculate_error is not called when there is no such year.
C11_Comparison ==
    (CmpFinished /\ WellFormedUpload) =>
        /\ AlignedRows
        /\ IF YearsFrom(0) = <<>>
           THEN epc = "idle"
           ELSE /\ epc # "idle"
                /\ Len(projected_counts) = Len(actual_counts)
                /\ projected_counts =
                       [k \in 1 .. Len(YearsFrom(0)) |-> projected_df.Total[YearsFrom(0)[k] + 1]]
                /\ actual_counts =
                       [k \in 1 .. Len(YearsFrom(0)) |-> UploadedTotal(YearsFrom(0)[k])]

(***************************************************************************)
(* Frame of add_new_cow on the animal store (under SpecDB).                *)
(***************************************************************************)
\* add_new_cow(cow_id, sex) called with a stored cow_id refuses the insert
AddExistingRefused ==
    \A cow_id \in CowIds, sex \in Sexes :
        (cow_id \in DOMAIN cows /\ add_new_cow(cow_id, sex)) =>
            (cows' = cows /\ ret' = "False")

\* no step removes an animal or takes its status back to Active
NoneReactivated ==
    \A c \in DOMAIN cows :
        /\ c \in DOMAIN cows'
        /\ cows[c].status # "Active" => cows'[c].status # "Active"

\* C12: add_new_cow called with an identifier already in the animal store
\* returns False and leaves every animal record unchanged, so that once an
\* animal's status has left Active no sequence of add_new_cow and log_event
\* calls makes it Active again.
C12_NoReactivation == [][AddExistingRefused /\ NoneReactivated]_vars

\* add_new_cow has just been refused for the only stored animal, whose status
\* had already left Active (any log_event since would have reset ret)
C12_Witness ==
    /\ ret = "False"
    /\ DOMAIN cows = {"c1"}
    /\ cows["c1"].status \in {"Sale", "Death"}

====
